---- MODULE Spec2Model ----
(***************************************************************************)
(* Steel-LLMSense: the text-generation client (send_to_ollama with its     *)
(* tenacity retry decorator), the iterative debate orchestrator            *)
(* (run_iterative_debate) of scripts/evaluate_llm.py, and the Save         *)
(* Analysis / Run Evaluation handlers of app.py with the record store.     *)
(*                                                                         *)
(* Python values are tagged records [t, v]: t is the Python type, v the    *)
(* payload (a string, or a function from keys to values for a dict).       *)
(* Temperatures are in tenths (0.5 is 5, 0.1 is 1).                        *)
(***************************************************************************)
EXTENDS Integers, Sequences, FiniteSets, TLC

VARIABLES
    jsonErrIsRequestException, \* the installed requests: is its JSONDecodeError a RequestException
    pc,          \* position of the call in flight
    caller,      \* who started it: "none", "direct" (library call) or "app"
    args,        \* arguments of the call in flight
    i,           \* loop variable of run_iterative_debate (0-based)
    history,     \* the debate history accumulated so far
    calls,       \* every send_to_ollama call made so far: stance, round, temperature, prompt
    attempt,     \* tenacity's attempt number: requests sent so far by the current call
    lastOutcome, \* how the latest request of the current call ended ("none" before the first)
    ret,         \* what the current send_to_ollama call returned (pending until it returns)
    result,      \* what the finished operation returned
    session,     \* st.session_state
    files,       \* the outputs/ folder: file name -> JSON document
    ui,          \* what the app page showed last
    evaluation,  \* the file and method of the evaluation the app is running
    runs,        \* concurrent sessions inside log_streamlit_evaluation: position and arguments
    df,          \* the sensor table load_steel_data returned
    summarized,  \* what the summarizer returned last
    mlruns       \* the MLflow run of each session: its tags and metric histories

vars == <<jsonErrIsRequestException, pc, caller, args, i, history, calls,
          attempt, lastOutcome, ret, result, session, files, ui, evaluation,
          runs, df, summarized, mlruns>>

\* The state of the logging sessions and of the summarizer
auxVars == <<runs, df, summarized, mlruns>>

----------------------------------------------------------------------------
(* Bounds of the model *)

MaxRounds == 2

----------------------------------------------------------------------------
(* Python values *)

PyStr(s) == [t |-> "str", v |-> s]
PyNone == [t |-> "none", v |-> ""]
PyBool(b) == [t |-> "bool", v |-> IF b THEN "True" ELSE "False"]
PyDict(f) == [t |-> "dict", v |-> f]
PyList(s) == [t |-> "list", v |-> s]
PyInt(n) == [t |-> "int", v |-> n]
PyFloat(n) == [t |-> "float", v |-> n]
Pending == [t |-> "pending", v |-> ""]

\* dict.get(key, default)
Get(d, key, default) == IF key \in DOMAIN d.v THEN d.v[key] ELSE default

----------------------------------------------------------------------------
(* Inputs: the texts the operator and the backend can supply *)

Equations == {"Usage_kWh = 12.5000 + 1.2000 * CO2(tCO2)",
              "Usage_kWh = 3.0000 - 0.5000 * NSM"}
Reasonings == {"{\"maintenance_needed\": true}"}
NoEvaluation == [file |-> "", method |-> ""]

\* Response fields the backend can put in a 2xx reply, before .strip()
ArgBody == "The analysis is sound."
ArgBodyPadded == "  The analysis is sound.\n"
JudgeFull == "{\"winner\": \"Pro Agent\", \"revised_pro\": \"{\\\"maintenance_needed\\\": false}\"}"
JudgeNoRevision == "{\"winner\": \"Con Agent\"}"
JudgeEmptyRevision == "{\"winner\": \"Con Agent\", \"revised_pro\": \"\"}"
JudgeProse == "The Pro agent made the stronger case."
JudgeArray == "[1, 2]"
NoResponseField == ""
RevisedText == "{\"maintenance_needed\": false}"

InsightJson == "{\"maintenance_needed\": true}"
InsightProse == "Maintenance looks unnecessary."
InsightBodies == {InsightJson, InsightProse}

ArgBodies == {ArgBody, ArgBodyPadded}
JudgeBodies == {JudgeFull, JudgeNoRevision, JudgeEmptyRevision, JudgeProse,
                JudgeArray, NoResponseField}

\* str(e) of the exceptions requests raises
ConnRefusedMsg == "Connection refused"
HttpMsg == "500 Server Error: Internal Server Error for url: http://localhost:11434/api/generate"
HttpQuotedMsg == "502 Server Error: upstream \"ollama\" down for url: http://localhost:11434/api/generate"
JsonMsg == "Expecting value: line 1 column 1 (char 0)"
ErrMessages == {ConnRefusedMsg, HttpMsg, HttpQuotedMsg, JsonMsg}

----------------------------------------------------------------------------
(* send_to_ollama of scripts/evaluate_llm.py *)

StopAfterAttempt == 3
DefaultTemperature == 1
DebateTemperature == 5

\* Transport-level failures: requests.post raising ConnectionError (refused,
\* unreachable, or the operating system's connect timeout: line 24 passes no
\* timeout=, so requests raises no Timeout of its own) and raise_for_status
\* raising HTTPError on a non-2xx reply.
TransportFailures == {"conn_error", "http_error"}

\* What one execution of requests.post / raise_for_status / response.json()
\* .get("response", "").strip() can end in: a 2xx reply with a usable body,
\* a transport failure, a 2xx reply that is not JSON, or a 2xx reply whose
\* JSON is no object or whose response field is no string.  The reason phrase
\* with a double quote in it is drawn for the judge call only, the one call
\* whose returned text is parsed.
Outcomes(stance) ==
    [kind : {"ok"}, text : IF stance \in {"pro", "con"} THEN ArgBodies ELSE JudgeBodies]
    \cup {[kind |-> "conn_error", text |-> ConnRefusedMsg],
          [kind |-> "http_error", text |-> HttpMsg],
          [kind |-> "bad_json", text |-> JsonMsg],
          [kind |-> "bad_shape", text |-> "'list' object has no attribute 'get'"]}
    \cup (IF stance \in {"pro", "con"} THEN {}
          ELSE {[kind |-> "http_error", text |-> HttpQuotedMsg]})

\* str.strip() on the response texts above
Strip(s) == IF s = ArgBodyPadded THEN ArgBody ELSE s

\* the f-string of line 29
Sentinel(e) ==
    "{\"error\": \"Failed to connect to Ollama API after multiple attempts: " \o e \o "\"}"

\* A variant of the except clause that catches ConnectionError alone
CaughtOnlyConnectionError(kind) == kind = "conn_error"

\* except requests.exceptions.RequestException: which outcomes line 27 catches.
\* ConnectionError, Timeout and HTTPError are RequestExceptions; the
\* JSONDecodeError of response.json() is one from requests 2.27 on and a plain
\* ValueError before; AttributeError never is.
CaughtByExcept(kind) ==
    \/ kind \in TransportFailures
    \/ kind = "bad_json" /\ jsonErrIsRequestException

\* One execution of the function body, lines 16-29: the value it returns, or
\* "raise" when the exception escapes the except clause.
Body(o) ==
    IF o.kind = "ok" THEN [how |-> "return", value |-> PyStr(Strip(o.text))]
    ELSE IF CaughtByExcept(o.kind)
         THEN [how |-> "return", value |-> PyStr(Sentinel(o.text))]
         ELSE [how |-> "raise", value |-> PyNone]

\* tenacity's retry(stop=stop_after_attempt(3), wait=wait_fixed(2)), line 10:
\* a returned value ends the call; an exception is retried until the attempt
\* number reaches 3, and then RetryError is raised to the caller.
Retry(how, attemptNumber) ==
    IF how = "return" THEN "return"
    ELSE IF attemptNumber >= StopAfterAttempt THEN "raise" ELSE "retry"

CallStates == {"pro", "con", "judge", "single"}

\* One outbound request of the call in flight and what the function and the
\* decorator do with its outcome.
Request(o) ==
    /\ pc \in CallStates
    /\ ret = Pending
    /\ attempt' = attempt + 1
    /\ lastOutcome' = o.kind
    /\ LET b == Body(o)
           next == Retry(b.how, attempt + 1)
       IN  /\ ret' = IF next = "return" THEN b.value ELSE Pending
           /\ pc' = IF next = "raise" THEN "raised" ELSE pc
    /\ UNCHANGED <<jsonErrIsRequestException, caller, args, i, history, calls,
                   result, session, files, ui, evaluation>>
    /\ UNCHANGED auxVars

----------------------------------------------------------------------------
(* json.loads on the texts above: the parsed value, or ok = FALSE for
   json.JSONDecodeError *)

ErrorPrefix == "Failed to connect to Ollama API after multiple attempts: "

json_loads(s) ==
    CASE s = JudgeFull ->
           [ok |-> TRUE, value |-> PyDict([winner |-> PyStr("Pro Agent"),
                                           revised_pro |-> PyStr(RevisedText)])]
      [] s = JudgeNoRevision ->
           [ok |-> TRUE, value |-> PyDict([winner |-> PyStr("Con Agent")])]
      [] s = JudgeEmptyRevision ->
           [ok |-> TRUE, value |-> PyDict([winner |-> PyStr("Con Agent"),
                                           revised_pro |-> PyStr("")])]
      [] s = InsightJson ->
           [ok |-> TRUE, value |-> PyDict([maintenance_needed |-> PyBool(TRUE)])]
      [] s = RevisedText ->
           [ok |-> TRUE, value |-> PyDict([maintenance_needed |-> PyBool(FALSE)])]
      [] s = JudgeArray ->
           [ok |-> TRUE, value |-> PyList(<<PyInt(1), PyInt(2)>>)]
      [] \E e \in ErrMessages \ {HttpQuotedMsg} : s = Sentinel(e) ->
           [ok |-> TRUE,
            value |-> PyDict([error |-> PyStr(ErrorPrefix \o
                (CHOOSE e \in ErrMessages \ {HttpQuotedMsg} : s = Sentinel(e)))])]
      [] OTHER -> [ok |-> FALSE, value |-> PyNone]

----------------------------------------------------------------------------
(* run_iterative_debate of scripts/evaluate_llm.py *)

DefaultRounds == 2

NoArgs == [summary_equation |-> "", llm_reasoning |-> "", rounds |-> 0]

\* A line of the history string: "Round <round> (<role>): <text>\n"
Turn(round, role, text) == [round |-> round, role |-> role, text |-> text]

\* The f-strings of _build_debate_agent_prompt: the template and what it embeds
build_debate_agent_prompt(summary_equation, llm_reasoning, stance, hist) ==
    [template |-> IF stance = "pro" THEN "defend" ELSE "critique",
     summary_equation |-> summary_equation,
     llm_reasoning |-> llm_reasoning,
     history |-> hist]

\* The judge_prompt f-string, lines 163-184
JudgePrompt(summary_equation, llm_reasoning, hist) ==
    [template |-> "judge",
     summary_equation |-> summary_equation,
     llm_reasoning |-> llm_reasoning,
     history |-> hist]

\* send_to_ollama(pro_prompt, temperature=0.5), line 154
ProCall(a, round, hist) ==
    [stance |-> "pro", round |-> round, temperature |-> DebateTemperature,
     prompt |-> build_debate_agent_prompt(a.summary_equation, a.llm_reasoning, "pro", hist)]

\* A variant of the Con call whose prompt is built before the Pro turn is appended
ConCallStaleHistory(a, round, hist) ==
    [stance |-> "con", round |-> round, temperature |-> DebateTemperature,
     prompt |-> build_debate_agent_prompt(a.summary_equation, a.llm_reasoning, "con",
                                          SubSeq(hist, 1, Len(hist) - 1))]

\* send_to_ollama(con_prompt, temperature=0.5), line 159
ConCall(a, round, hist) ==
    [stance |-> "con", round |-> round, temperature |-> DebateTemperature,
     prompt |-> build_debate_agent_prompt(a.summary_equation, a.llm_reasoning, "con", hist)]

\* A variant of the judge call that passes the debate temperature
JudgeCallDebateTemperature(a, hist) ==
    [stance |-> "judge", round |-> 0, temperature |-> DebateTemperature,
     prompt |-> JudgePrompt(a.summary_equation, a.llm_reasoning, hist)]

\* send_to_ollama(judge_prompt), line 185: the default temperature
JudgeCall(a, hist) ==
    [stance |-> "judge", round |-> 0, temperature |-> DefaultTemperature,
     prompt |-> JudgePrompt(a.summary_equation, a.llm_reasoning, hist)]

\* history += f"Round {i+1} (Pro): {pro_argument}\n", line 155
AppendPro(hist, k, text) == Append(hist, Turn(k + 1, "Pro", text))

\* history += f"Round {i+1} (Con): {con_argument}\n", line 160
AppendCon(hist, k, text) == Append(hist, Turn(k + 1, "Con", text))

\* A variant of the loop bound that runs one iteration too many
LoopContinuesOffByOne(k, rounds) == k + 1 <= rounds

\* for i in range(rounds): is there a next iteration after iteration k
LoopContinues(k, rounds) == k + 1 < rounds

\* A variant of the fallback verdict that drops the judge's text
VerdictWithoutRawOutput(final_judgement_str) ==
    LET parsed == json_loads(final_judgement_str)
    IN  IF parsed.ok THEN parsed.value
        ELSE PyDict([error |-> PyStr("Failed to parse the judge's final JSON output.")])

\* lines 186-189
Verdict(final_judgement_str) ==
    LET parsed == json_loads(final_judgement_str)
    IN  IF parsed.ok THEN parsed.value
        ELSE PyDict([error |-> PyStr("Failed to parse the judge's final JSON output."),
                     raw_output |-> PyStr(final_judgement_str)])

\* Entry of run_iterative_debate up to its first send_to_ollama call.  The
\* history string starts as the header "Debate History:\n"; the model keeps
\* the lines appended after it.
EnterDebate(a) ==
    /\ args' = a
    /\ i' = 0
    /\ history' = <<>>
    /\ attempt' = 0
    /\ lastOutcome' = "none"
    /\ ret' = Pending
    /\ result' = PyNone
    /\ IF 0 < a.rounds
       THEN pc' = "pro" /\ calls' = <<ProCall(a, 1, <<>>)>>
       ELSE pc' = "judge" /\ calls' = <<JudgeCall(a, <<>>)>>

\* A direct call run_iterative_debate(summary_equation, llm_reasoning, rounds)
StartDebate(summary_equation, llm_reasoning, rounds) ==
    /\ pc \in {"idle", "done", "raised"}
    /\ caller' = "direct"
    /\ EnterDebate([summary_equation |-> summary_equation,
                    llm_reasoning |-> llm_reasoning, rounds |-> rounds])
    /\ UNCHANGED <<jsonErrIsRequestException, session, files, ui, evaluation>>
    /\ UNCHANGED auxVars

\* The Pro call returned: lines 155-159
ProReturn ==
    /\ pc = "pro"
    /\ ret # Pending
    /\ history' = AppendPro(history, i, ret.v)
    /\ calls' = Append(calls, ConCall(args, i + 1, history'))
    /\ pc' = "con"
    /\ ret' = Pending
    /\ attempt' = 0
    /\ lastOutcome' = "none"
    /\ UNCHANGED <<jsonErrIsRequestException, caller, args, i, result,
                   session, files, ui, evaluation>>
    /\ UNCHANGED auxVars

\* The Con call returned: line 160, then the next iteration or the judge
ConReturn ==
    /\ pc = "con"
    /\ ret # Pending
    /\ history' = AppendCon(history, i, ret.v)
    /\ IF LoopContinues(i, args.rounds)
       THEN /\ i' = i + 1
            /\ pc' = "pro"
            /\ calls' = Append(calls, ProCall(args, i + 2, history'))
       ELSE /\ i' = i
            /\ pc' = "judge"
            /\ calls' = Append(calls, JudgeCall(args, history'))
    /\ ret' = Pending
    /\ attempt' = 0
    /\ lastOutcome' = "none"
    /\ UNCHANGED <<jsonErrIsRequestException, caller, args, result,
                   session, files, ui, evaluation>>
    /\ UNCHANGED auxVars

\* The judge call returned: lines 186-189, run_iterative_debate returns
JudgeReturn ==
    /\ pc = "judge"
    /\ ret # Pending
    /\ result' = Verdict(ret.v)
    /\ pc' = "done"
    /\ attempt' = 0
    /\ lastOutcome' = "none"
    /\ UNCHANGED <<jsonErrIsRequestException, caller, args, i, history, calls,
                   ret, session, files, ui, evaluation>>
    /\ UNCHANGED auxVars

----------------------------------------------------------------------------
(* The single-call evaluation prompts of scripts/evaluate_llm.py *)

build_reflection_prompt(summary_equation, llm_reasoning) ==
    [template |-> "reflection", summary_equation |-> summary_equation,
     llm_reasoning |-> llm_reasoning, history |-> <<>>]

build_chain_of_thought_prompt(summary_equation, llm_reasoning) ==
    [template |-> "chain_of_thought", summary_equation |-> summary_equation,
     llm_reasoning |-> llm_reasoning, history |-> <<>>]

build_single_debate_prompt(summary_equation, llm_reasoning) ==
    [template |-> "single_debate", summary_equation |-> summary_equation,
     llm_reasoning |-> llm_reasoning, history |-> <<>>]

\* send_to_ollama(prompt): one call at the default temperature
SingleCall(prompt) ==
    [stance |-> prompt.template, round |-> 0, temperature |-> DefaultTemperature,
     prompt |-> prompt]

\* A variant that hands the single-call methods to the debate orchestrator
EnterSingleThroughDebate(a, prompt) ==
    EnterDebate([a EXCEPT !.rounds = DefaultRounds])

\* Entry of a lone send_to_ollama call
EnterSingle(a, prompt) ==
    /\ args' = a
    /\ i' = 0
    /\ history' = <<>>
    /\ attempt' = 0
    /\ lastOutcome' = "none"
    /\ ret' = Pending
    /\ result' = PyNone
    /\ pc' = "single"
    /\ calls' = <<SingleCall(prompt)>>

\* A direct call send_to_ollama(build_reflection_prompt(...))
StartCall(summary_equation, llm_reasoning) ==
    /\ pc \in {"idle", "done", "raised"}
    /\ caller' = "direct"
    /\ EnterSingle([summary_equation |-> summary_equation,
                    llm_reasoning |-> llm_reasoning, rounds |-> 0],
                   build_reflection_prompt(summary_equation, llm_reasoning))
    /\ UNCHANGED <<jsonErrIsRequestException, session, files, ui, evaluation>>
    /\ UNCHANGED auxVars

\* The lone call returned: its text is the result
SingleReturn ==
    /\ pc = "single"
    /\ ret # Pending
    /\ result' = ret
    /\ pc' = "done"
    /\ attempt' = 0
    /\ lastOutcome' = "none"
    /\ UNCHANGED <<jsonErrIsRequestException, caller, args, i, history, calls,
                   ret, session, files, ui, evaluation>>
    /\ UNCHANGED auxVars

----------------------------------------------------------------------------
(* load_steel_data, summarize_day and summarize_period of
   scripts/generate_daily_summaries.py *)

MaxDay == 2
MaxRows == 3

Days == 1 .. MaxDay
\* Minutes after midnight of a reading
Times == {0, 15}
LoadTypes == {"Light_Load", "Maximum_Load"}
Readings == {1, 2}

numeric_columns == <<"Usage_kWh", "Lagging_Current_Reactive.Power_kVarh",
                     "Leading_Current_Reactive_Power_kVarh", "CO2(tCO2)",
                     "Lagging_Current_Power_Factor", "Leading_Current_Power_Factor">>

\* The two calendar columns of the table, which follow from the day
Day_of_week(day) == IF day % 2 = 1 THEN "Sunday" ELSE "Monday"
WeekStatus(day) == IF day % 2 = 1 THEN "Weekend" ELSE "Weekday"

\* The rows the table can hold.  A row's six measurements are one reading.
Rows ==
    {[date |-> [day |-> d, time |-> t],
      Load_Type |-> l,
      WeekStatus |-> WeekStatus(d),
      Day_of_week |-> Day_of_week(d),
      values |-> [k \in 1 .. Len(numeric_columns) |-> x]] :
        d \in Days, t \in Times, l \in LoadTypes, x \in Readings}

\* What load_steel_data can return
Tables == {rows \in SUBSET Rows : Cardinality(rows) <= MaxRows}

\* The table of the app and of the evaluation runs
SteelData == {r \in Rows : r.date.time = 15 /\ r.values[1] = r.date.day
                            /\ r.Load_Type = "Light_Load"}

NoSummary == [header |-> "", window |-> <<>>, stats |-> <<>>, distribution |-> <<>>]

\* Line 15: df['date'].dt.date == pd.to_datetime(date).date()
DayRows(frame, date) == {r \in frame : r.date.day = date}

\* Line 55: df['date'] >= pd.to_datetime(start_date) and
\* df['date'] <= pd.to_datetime(end_date), both bounds at midnight
PeriodRows(frame, start_date, end_date) ==
    {r \in frame : /\ r.date.day >= start_date
                   /\ \/ r.date.day < end_date
                      \/ r.date.day = end_date /\ r.date.time = 0}

RECURSIVE Sum(_, _)
Sum(rows, k) ==
    IF rows = {} THEN 0
    ELSE LET r == CHOOSE r \in rows : TRUE
         IN  r.values[k] + Sum(rows \ {r}, k)

Max(rows, k) == CHOOSE x \in {r.values[k] : r \in rows} :
                    \A r \in rows : r.values[k] <= x
Min(rows, k) == CHOOSE x \in {r.values[k] : r \in rows} :
                    \A r \in rows : x <= r.values[k]

\* f"{num / den:.2f}" in hundredths.  No quotient of the tables here lies
\* half way between two hundredths.
Fixed2(num, den) == (200 * num + den) \div (2 * den)

\* Lines 19-44 and 58-77: the header, a line of Avg, Max and Min for each
\* numeric column, and a line for each Load_Type value that value_counts
\* found in the window
Summarize(header, window, rows) ==
    [header |-> header,
     window |-> window,
     stats |-> [k \in 1 .. Len(numeric_columns) |->
                  [column |-> numeric_columns[k],
                   Avg |-> Fixed2(Sum(rows, k), Cardinality(rows)),
                   Max |-> Fixed2(Max(rows, k), 1),
                   Min |-> Fixed2(Min(rows, k), 1)]],
     distribution |-> [l \in {r.Load_Type : r \in rows} |->
                  Fixed2(100 * Cardinality({r \in rows : r.Load_Type = l}),
                         Cardinality(rows))]]

\* summarize_day(df, date), lines 14-44
summarize_day(frame, date) ==
    LET day_df == DayRows(frame, date)
    IN  IF day_df = {}
        THEN [NoSummary EXCEPT !.header = "No data found for", !.window = <<date>>]
        ELSE Summarize("Summary for", <<date>>, day_df)

\* summarize_period(df, start_date, end_date), lines 54-77
summarize_period(frame, start_date, end_date) ==
    LET period_df == PeriodRows(frame, start_date, end_date)
    IN  IF period_df = {}
        THEN [NoSummary EXCEPT !.header = "No data found for the period from",
                               !.window = <<start_date, end_date>>]
        ELSE Summarize("Summary from", <<start_date, end_date>>, period_df)

\* A call summarize_day(df, date)
SummarizeDay(date) ==
    /\ summarized' = summarize_day(df, date)
    /\ UNCHANGED <<jsonErrIsRequestException, pc, caller, args, i, history, calls,
                   attempt, lastOutcome, ret, result, session, files, ui,
                   evaluation, runs, df, mlruns>>

\* A call summarize_period(df, start_date, end_date)
SummarizePeriod(start_date, end_date) ==
    /\ summarized' = summarize_period(df, start_date, end_date)
    /\ UNCHANGED <<jsonErrIsRequestException, pc, caller, args, i, history, calls,
                   attempt, lastOutcome, ret, result, session, files, ui,
                   evaluation, runs, df, mlruns>>

----------------------------------------------------------------------------
(* json.dump, json.dumps and json.load: the text of a value and the value of
   a text *)

\* The keys of the dicts handled here, in the order the code inserts them
\* (json writes the members of a dict in insertion order)
KeyOrder == <<"summary", "reasoning", "summary_equation", "revised_reasoning",
              "raw_revised_output", "maintenance_needed", "winner",
              "scores", "final_scores", "correctness_score", "clarity_score",
              "practical_usefulness_score", "usefulness_score", "revised_pro",
              "error", "raw_output", "raw_result">>

Keys(d) == SelectSeq(KeyOrder, LAMBDA k : k \in DOMAIN d.v)

RECURSIVE Spaces(_)
Spaces(n) == IF n = 0 THEN "" ELSE " " \o Spaces(n - 1)

\* The text of a str between the quotes: " becomes \".  Of the texts stored
\* or logged, the two interpretation texts are the ones that hold a quote;
\* none holds a backslash or a control character.
Escape(s) ==
    CASE s = InsightJson -> "{\\\"maintenance_needed\\\": true}"
      [] s = RevisedText -> "{\\\"maintenance_needed\\\": false}"
      [] OTHER -> s

RECURSIVE Dump(_, _, _)
RECURSIVE DumpMembers(_, _, _, _)
RECURSIVE DumpItems(_, _, _)

\* json.dumps(value, indent=indent), at nesting depth level
Dump(value, indent, level) ==
    CASE value.t = "none" -> "null"
      [] value.t = "bool" -> IF value = PyBool(TRUE) THEN "true" ELSE "false"
      [] value.t = "int" -> ToString(value.v)
      [] value.t = "str" -> "\"" \o Escape(value.v) \o "\""
      [] value.t = "dict" ->
           IF Keys(value) = <<>> THEN "{}"
           ELSE "{\n" \o DumpMembers(value, Keys(value), indent, level + 1)
                \o Spaces(indent * level) \o "}"
      [] value.t = "list" ->
           IF value.v = <<>> THEN "[]"
           ELSE "[\n" \o DumpItems(value.v, indent, level + 1)
                \o Spaces(indent * level) \o "]"

DumpMembers(d, keys, indent, level) ==
    IF keys = <<>> THEN ""
    ELSE Spaces(indent * level) \o "\"" \o Head(keys) \o "\": "
         \o Dump(d.v[Head(keys)], indent, level)
         \o (IF Tail(keys) = <<>> THEN "\n" ELSE ",\n")
         \o DumpMembers(d, Tail(keys), indent, level)

DumpItems(items, indent, level) ==
    IF items = <<>> THEN ""
    ELSE Spaces(indent * level) \o Dump(Head(items), indent, level)
         \o (IF Tail(items) = <<>> THEN "\n" ELSE ",\n")
         \o DumpItems(Tail(items), indent, level)

----------------------------------------------------------------------------
(* The record store: save_output_json of scripts/generate_daily_summaries.py
   and save_revised_reasoning of scripts/evaluate_llm.py *)

\* What the operator can type as a file name
NameInputs == {"", "a"}

\* A name with a folder in it that outputs/ does not have
NestedNames == {"reports/a"}

\* open(f"outputs/{suggested_name}.json", 'w') raises FileNotFoundError when
\* the path runs through a folder that does not exist
InMissingFolder(name) == name \in NestedNames

\* The names a record of the store can have
StoreNames == {"a", "b"}

\* A name the operator can type that ends as the names of the revised records do
RevisedLookingNames == {"a_revised"}

\* Every base name the model gives a file of outputs/
BaseNames == NameInputs \cup StoreNames \cup RevisedLookingNames

RecordFile(name) == name \o ".json"
RevisedFile(filename_base) == filename_base \o "_revised.json"

\* f.endswith('_revised.json') on the names the store can hold
EndsWithRevised(f) == \E n \in BaseNames : f = RevisedFile(n)

\* selected_file.replace(".json", "")
WithoutJson(f) ==
    CHOOSE n \in BaseNames \cup {n \o "_revised" : n \in BaseNames} :
        f = RecordFile(n)

\* open(path, 'w') and what is written to it
Write(fs, path, text) ==
    [f \in DOMAIN fs \cup {path} |-> IF f = path THEN text ELSE fs[f]]

\* A variant that writes the record without the interpretation
save_output_json_without_reasoning(fs, summary, reasoning, suggested_name) ==
    Write(fs, "outputs/" \o RecordFile(suggested_name),
          Dump(PyDict([summary |-> summary, reasoning |-> PyNone]), 4, 0))

\* save_output_json(summary, reasoning, suggested_name), lines 123-132
save_output_json(fs, summary, reasoning, suggested_name) ==
    Write(fs, "outputs/" \o RecordFile(suggested_name),
          Dump(PyDict([summary |-> summary, reasoning |-> reasoning]), 4, 0))

\* Lines 204-207 of save_revised_reasoning: json.loads raises TypeError on
\* what is no str and JSONDecodeError on a str that is no JSON; both are caught
reasoning_data(revised_reasoning) ==
    LET parsed == IF revised_reasoning.t = "str"
                  THEN json_loads(revised_reasoning.v)
                  ELSE [ok |-> FALSE, value |-> PyNone]
    IN  IF parsed.ok THEN parsed.value
        ELSE PyDict([raw_revised_output |-> revised_reasoning])

\* save_revised_reasoning(filename_base, summary_equation, revised_reasoning),
\* lines 196-216
save_revised_reasoning(fs, filename_base, summary_equation, revised_reasoning) ==
    Write(fs, "outputs/" \o RevisedFile(filename_base),
          Dump(PyDict([summary_equation |-> summary_equation,
                       revised_reasoning |-> reasoning_data(revised_reasoning)]), 4, 0))

\* What a caller can pass as reasoning to save_output_json: the backend's text
\* as the app holds it, None, an interpretation object and a raw-text wrapper
ReasoningArgs ==
    {PyStr(b) : b \in InsightBodies}
    \cup {PyNone,
          PyDict([maintenance_needed |-> PyBool(TRUE)]),
          PyDict([raw_output |-> PyStr(InsightProse)])}

\* What a caller can pass as revised_reasoning to save_revised_reasoning: the
\* text of a JSON object, of a JSON array, prose, and an object that is no str
RevisedArgs ==
    {PyStr(RevisedText), PyStr(JudgeArray), PyStr(InsightProse),
     PyDict([maintenance_needed |-> PyBool(FALSE)])}

\* The JSON values the files of outputs/ can hold
JsonDocuments ==
    {PyDict([summary |-> PyStr(e), reasoning |-> r]) :
        e \in Equations, r \in ReasoningArgs}
    \cup {PyDict([summary_equation |-> PyStr(e), revised_reasoning |-> reasoning_data(r)]) :
        e \in Equations \cup {""}, r \in RevisedArgs}

\* json.load(f): the value that the text of the file denotes.  Every file of
\* outputs/ is written with indent=4.
json_load(text) == CHOOSE d \in JsonDocuments : Dump(d, 4, 0) = text

----------------------------------------------------------------------------
(* app.py *)

Methods == {"Reflection", "Chain of Thought", "Single-Round Debate",
            "Iterative Agent Debate"}

\* json.dumps(value, indent=2), line 166
json_dumps(value) == Dump(value, 2, 0)

\* A variant of the truth test under which only None is false
TruthyUnlessNone(value) == value.t # "none"

\* bool(value), the test of an if statement
Truthy(value) ==
    CASE value.t = "none" -> FALSE
      [] value.t = "bool" -> value = PyBool(TRUE)
      [] value.t = "int" -> value.v # 0
      [] value.t = "str" -> value.v # ""
      [] value.t \in {"int", "float"} -> value.v # 0
      [] value.t = "dict" -> DOMAIN value.v # {}
      [] value.t = "list" -> value.v # <<>>

\* send_to_ollama of scripts/generate_daily_summaries.py, lines 112-121: no
\* retry and no except clause; None on a status other than 200
GenerateOutcomes ==
    [kind : {"ok"}, text : InsightBodies]
    \cup {[kind |-> "non_200", text |-> ""],
          [kind |-> "conn_error", text |-> ConnRefusedMsg]}

\* Lines 109-128: the page renders the insights, and the Save / Evaluate
\* expander below them, when latest_reasoning is a str that is either no JSON
\* or a JSON object; anything else raises out of the script before line 130.
ExpanderShown ==
    /\ "latest_reasoning" \in DOMAIN session.v
    /\ session.v["latest_reasoning"].t = "str"
    /\ LET parsed == json_loads(session.v["latest_reasoning"].v)
       IN  parsed.ok => parsed.value.t = "dict"

AppIdle == pc \in {"idle", "done", "raised"} /\ ui # "evaluating"

\* Lines 109-128 on a latest_reasoning: the insights of a JSON object, the raw
\* text of what is no JSON, or the exception that leaves the script
Display(latest_reasoning) ==
    IF latest_reasoning.t # "str" THEN "TypeError"
    ELSE LET parsed == json_loads(latest_reasoning.v)
         IN  IF ~parsed.ok THEN "raw text"
             ELSE IF parsed.value.t = "dict" THEN "insights"
             ELSE "AttributeError"

\* The "Generate LLM Insights" button, lines 99-105
GenerateInsights(summary_equation, o) ==
    /\ AppIdle
    /\ IF o.kind = "conn_error"
       THEN /\ ui' = "ConnectionError"
            /\ UNCHANGED session
       ELSE LET response == IF o.kind = "ok" THEN PyStr(o.text) ELSE PyNone
            IN  /\ session' = PyDict([
                       latest_summary_equation |-> PyStr(summary_equation),
                       latest_reasoning |-> response])
                /\ ui' = Display(response)
    /\ UNCHANGED <<jsonErrIsRequestException, pc, caller, args, i, history, calls,
                   attempt, lastOutcome, ret, result, files, evaluation>>
    /\ UNCHANGED auxVars

\* The "Save Analysis" button, lines 132-142
SaveAnalysis(filename) ==
    /\ AppIdle
    /\ ExpanderShown
    /\ IF filename = ""
       THEN /\ ui' = "warning"
            /\ UNCHANGED files
       ELSE IF InMissingFolder(filename)
       THEN /\ ui' = "FileNotFoundError"
            /\ UNCHANGED files
       ELSE /\ files' = save_output_json(files,
                            session.v["latest_summary_equation"],
                            session.v["latest_reasoning"], filename)
            /\ ui' = "saved"
    /\ UNCHANGED <<jsonErrIsRequestException, pc, caller, args, i, history, calls,
                   attempt, lastOutcome, ret, result, session, evaluation>>
    /\ UNCHANGED auxVars

\* Line 148: the files offered for evaluation
json_files == {f \in {RecordFile(n) : n \in BaseNames \cup {n \o "_revised" : n \in BaseNames}} :
                  /\ ("outputs/" \o f) \in DOMAIN files
                  /\ ~EndsWithRevised(f)}

\* The "Run Evaluation" button, lines 162-179: load the record and start the
\* chosen method's first client call
StartEvaluation(selected_file, eval_method) ==
    /\ AppIdle
    /\ ExpanderShown
    /\ selected_file \in json_files
    /\ LET data == json_load(files["outputs/" \o selected_file])
           equation == Get(data, "summary_equation", PyStr("")).v
           reasoning == json_dumps(Get(data, "reasoning", PyStr("")))
           a == [summary_equation |-> equation, llm_reasoning |-> reasoning,
                 rounds |-> IF eval_method = "Iterative Agent Debate"
                            THEN DefaultRounds ELSE 0]
       IN  CASE eval_method = "Reflection" ->
                  EnterSingle(a, build_reflection_prompt(equation, reasoning))
             [] eval_method = "Chain of Thought" ->
                  EnterSingle(a, build_chain_of_thought_prompt(equation, reasoning))
             [] eval_method = "Single-Round Debate" ->
                  EnterSingle(a, build_single_debate_prompt(equation, reasoning))
             [] eval_method = "Iterative Agent Debate" ->
                  EnterDebate(a)
    /\ caller' = "app"
    /\ evaluation' = [file |-> selected_file, method |-> eval_method]
    /\ ui' = "evaluating"
    /\ UNCHANGED <<jsonErrIsRequestException, session, files>>
    /\ UNCHANGED auxVars

\* The run's local state once the handler is over
ForgetRun ==
    /\ pc' = "idle"
    /\ caller' = "none"
    /\ args' = NoArgs
    /\ i' = 0
    /\ history' = <<>>
    /\ calls' = <<>>
    /\ attempt' = 0
    /\ lastOutcome' = "none"
    /\ ret' = Pending
    /\ result' = PyNone
    /\ evaluation' = NoEvaluation

\* Lines 193-197: the result as log_streamlit_evaluation gets it
parsed_result(res) ==
    IF res.t # "str" THEN res
    ELSE LET parsed == json_loads(res.v)
         IN  IF parsed.ok THEN parsed.value ELSE PyDict([raw_result |-> res])

\* Lines 181-212: after the method returned, save the revision of a debate,
\* display the result and log it.  result.get of line 181 and
\* result_dict.get of line 42 raise AttributeError on what is no dict.  What
\* log_streamlit_evaluation writes to temp/ and mlruns/ is read by no
\* operation of the app; the two-session specification below follows it.
FinishEvaluation ==
    /\ caller = "app"
    /\ pc = "done"
    /\ ui = "evaluating"
    /\ IF evaluation.method # "Iterative Agent Debate"
       THEN /\ ui' = IF parsed_result(result).t = "dict" THEN "result"
                     ELSE "AttributeError"
            /\ UNCHANGED files
       ELSE IF result.t # "dict"
       THEN ui' = "AttributeError" /\ UNCHANGED files
       ELSE LET revised == Get(result, "revised_pro", PyStr(""))
            IN  /\ ui' = "result"
                /\ IF Truthy(revised)
                   THEN files' = save_revised_reasoning(files,
                                     WithoutJson(evaluation.file),
                                     PyStr(args.summary_equation), revised)
                   ELSE UNCHANGED files
    /\ ForgetRun
    /\ UNCHANGED <<jsonErrIsRequestException, session>>
    /\ UNCHANGED auxVars

\* RetryError out of a client call leaves the handler through Streamlit's
\* exception display
EvaluationRaised ==
    /\ caller = "app"
    /\ pc = "raised"
    /\ ui = "evaluating"
    /\ ui' = "RetryError"
    /\ UNCHANGED files
    /\ ForgetRun
    /\ UNCHANGED <<jsonErrIsRequestException, session>>
    /\ UNCHANGED auxVars

----------------------------------------------------------------------------
(* Two browser sessions past the method call of "Run Evaluation": lines
   181-183 and log_streamlit_evaluation, lines 34-70, step by step.  Streamlit
   runs the script of each session in a thread of its own; the threads share
   the working directory.  Each session logs to the MLflow run it started. *)

Sessions == {"s1", "s2"}

IdleSession == [pc |-> "idle", selected_file |-> "", eval_method |-> "",
                equation |-> "", result_dict |-> PyNone]

NoRuns == [s \in Sessions |-> IdleSession]

\* parsed_result of lines 193-197 for a debate with and without a revision
\* and for a single call that answered in prose
ParsedResults ==
    {json_loads(JudgeFull).value, json_loads(JudgeNoRevision).value,
     PyDict([raw_result |-> PyStr(JudgeProse)])}

\* The run a session has before mlflow.start_run
NoMlRuns == [s \in Sessions |-> [tags |-> <<>>, metrics |-> <<>>]]

\* The keys under which the prompt of each method asks for the scores of
\* correctness, clarity and usefulness, and the key of the object that holds
\* them ("" for the result itself): build_reflection_prompt lines 53-55,
\* build_single_debate_prompt lines 117-120, the judge prompt line 181
ScoreKeys(eval_method) ==
    [correctness |-> "correctness_score",
     clarity |-> "clarity_score",
     usefulness |-> IF eval_method = "Iterative Agent Debate"
                    THEN "usefulness_score" ELSE "practical_usefulness_score"]

ScoresUnder(eval_method) ==
    CASE eval_method = "Reflection" -> ""
      [] eval_method = "Single-Round Debate" -> "scores"
      [] eval_method = "Iterative Agent Debate" -> "final_scores"

\* What the backend can put under a score key: a number, zero included, a
\* numeral in quotes and a word
ScoreValues == {PyInt(0), PyInt(7), PyStr("8"), PyStr("high")}

\* The parsed result of a method whose answer follows its prompt's format
ScoredResult(eval_method, correctness, clarity, usefulness) ==
    LET keys == ScoreKeys(eval_method)
        scores == PyDict((keys.correctness :> correctness)
                         @@ (keys.clarity :> clarity)
                         @@ (keys.usefulness :> usefulness))
    IN  CASE eval_method = "Reflection" -> scores
          [] eval_method = "Single-Round Debate" -> PyDict([scores |-> scores])
          [] eval_method = "Iterative Agent Debate" ->
               PyDict([winner |-> PyStr("Pro Agent"), final_scores |-> scores,
                       revised_pro |-> PyStr(RevisedText)])

ScoredMethods == {"Reflection", "Single-Round Debate", "Iterative Agent Debate"}

\* Parsed results with scores, one whose "scores" is no object, and one
\* without scores
ScoredResults ==
    {ScoredResult(m, c, l, u) : m \in ScoredMethods, c \in ScoreValues,
                                l \in ScoreValues, u \in ScoreValues}
    \cup {PyDict([scores |-> PyInt(7)]),
          PyDict([raw_result |-> PyStr(JudgeProse)])}

\* method_tag_map, lines 200-205
method_tag_map ==
    [Reflection |-> "Reflection"]
    @@ ("Chain of Thought" :> "CoT")
    @@ ("Single-Round Debate" :> "Debate")
    @@ ("Iterative Agent Debate" :> "IterativeDebate")

\* The (key, ml_key) pairs of lines 45-52
MetricKeys ==
    <<<<"correctness", "correctness">>, <<"correctness_score", "correctness">>,
      <<"clarity", "clarity">>, <<"clarity_score", "clarity">>,
      <<"usefulness", "usefulness">>, <<"practical_usefulness_score", "usefulness">>>>

\* float(val): the float of a number, of a bool and of a numeral; ValueError
\* on any other str and TypeError on None, a dict or a list (ok = FALSE)
Float(val) ==
    CASE val.t \in {"int", "float"} -> [ok |-> TRUE, value |-> PyFloat(val.v)]
      [] val.t = "bool" ->
           [ok |-> TRUE, value |-> PyFloat(IF val = PyBool(TRUE) THEN 1 ELSE 0)]
      [] val.t = "str" /\ val.v = "8" -> [ok |-> TRUE, value |-> PyFloat(8)]
      [] OTHER -> [ok |-> FALSE, value |-> PyNone]

\* mlflow.log_metric(key, value): one more value in the history of the metric
log_metric(metrics, key, value) ==
    [k \in DOMAIN metrics \cup {key} |->
        IF k = key
        THEN Append(IF k \in DOMAIN metrics THEN metrics[k] ELSE <<>>, value)
        ELSE metrics[k]]

RECURSIVE LogScores(_, _, _)
\* The loop of lines 45-58 over the pairs that are left
LogScores(metrics, scores, pairs) ==
    IF pairs = <<>> THEN metrics
    ELSE LET val == Get(scores, Head(pairs)[1], PyNone)
             f == Float(val)
         IN  LogScores(IF Truthy(val) /\ f.ok
                       THEN log_metric(metrics, Head(pairs)[2], f.value)
                       ELSE metrics,
                       scores, Tail(pairs))

ResultPath == "temp/result.json"
RevisedTextPath == "temp/revised_reasoning.txt"

\* Where mlflow.log_artifact(local_path, artifact_path) of a session's run
\* copies the file to
ArtifactPath(s, name) == "mlruns/" \o s \o "/artifacts/" \o name

\* Lines 169-179 returned: the method's result is at hand
MethodReturned(s, selected_file, eval_method, equation, result_dict) ==
    /\ runs[s].pc = "idle"
    /\ eval_method = "Iterative Agent Debate" <=> "winner" \in DOMAIN result_dict.v
    /\ runs' = [runs EXCEPT ![s] = [pc |-> "revise",
                                    selected_file |-> selected_file,
                                    eval_method |-> eval_method,
                                    equation |-> equation,
                                    result_dict |-> result_dict]]
    /\ UNCHANGED <<jsonErrIsRequestException, pc, caller, args, i, history, calls,
                   attempt, lastOutcome, ret, result, session, files, ui,
                   evaluation, df, summarized, mlruns>>

\* Lines 181-183
SaveRevised(s) ==
    /\ runs[s].pc = "revise"
    /\ LET revised == Get(runs[s].result_dict, "revised_pro", PyStr(""))
       IN  IF runs[s].eval_method = "Iterative Agent Debate" /\ Truthy(revised)
           THEN files' = save_revised_reasoning(files,
                             WithoutJson(runs[s].selected_file),
                             PyStr(runs[s].equation), revised)
           ELSE UNCHANGED files
    /\ runs' = [runs EXCEPT ![s].pc = "log_metrics"]
    /\ UNCHANGED <<jsonErrIsRequestException, pc, caller, args, i, history, calls,
                   attempt, lastOutcome, ret, result, session, ui,
                   evaluation, df, summarized, mlruns>>

\* Lines 35-58 of log_streamlit_evaluation, called at lines 207-211: the run
\* is started and tagged and the scores are logged.  scores.get of line 53
\* raises AttributeError when what is under "scores" is no dict; the
\* exception ends the run and leaves the handler.
LogMetrics(s) ==
    /\ runs[s].pc = "log_metrics"
    /\ LET result_dict == runs[s].result_dict
           tags == [file_name |-> WithoutJson(runs[s].selected_file),
                    evaluation_method |-> method_tag_map[runs[s].eval_method]]
           scores == Get(result_dict, "scores",
                         Get(result_dict, "final_scores", result_dict))
       IN  IF scores.t # "dict"
           THEN /\ mlruns' = [mlruns EXCEPT ![s] = [tags |-> tags, metrics |-> <<>>]]
                /\ runs' = [runs EXCEPT ![s].pc = "AttributeError"]
           ELSE /\ mlruns' = [mlruns EXCEPT ![s] =
                                 [tags |-> tags,
                                  metrics |-> LogScores(<<>>, scores, MetricKeys)]]
                /\ runs' = [runs EXCEPT ![s].pc = "write_result"]
    /\ UNCHANGED <<jsonErrIsRequestException, pc, caller, args, i, history, calls,
                   attempt, lastOutcome, ret, result, session, files, ui,
                   evaluation, df, summarized>>

\* Lines 60-63: json.dump(result_dict, f, indent=4) to temp/result.json
WriteResult(s) ==
    /\ runs[s].pc = "write_result"
    /\ files' = Write(files, ResultPath, Dump(runs[s].result_dict, 4, 0))
    /\ runs' = [runs EXCEPT ![s].pc = "log_result"]
    /\ UNCHANGED <<jsonErrIsRequestException, pc, caller, args, i, history, calls,
                   attempt, lastOutcome, ret, result, session, ui,
                   evaluation, df, summarized, mlruns>>

\* Line 64: mlflow.log_artifact("temp/result.json", "evaluation_output")
LogResult(s) ==
    /\ runs[s].pc = "log_result"
    /\ files' = Write(files, ArtifactPath(s, "evaluation_output/result.json"),
                      files[ResultPath])
    /\ runs' = [runs EXCEPT ![s].pc =
                   IF "revised_pro" \in DOMAIN runs[s].result_dict.v
                   THEN "write_revised" ELSE "logged"]
    /\ UNCHANGED <<jsonErrIsRequestException, pc, caller, args, i, history, calls,
                   attempt, lastOutcome, ret, result, session, ui,
                   evaluation, df, summarized, mlruns>>

\* Lines 67-69: f.write(result_dict["revised_pro"])
WriteRevisedText(s) ==
    /\ runs[s].pc = "write_revised"
    /\ runs[s].result_dict.v["revised_pro"].t = "str"
    /\ files' = Write(files, RevisedTextPath, runs[s].result_dict.v["revised_pro"].v)
    /\ runs' = [runs EXCEPT ![s].pc = "log_revised"]
    /\ UNCHANGED <<jsonErrIsRequestException, pc, caller, args, i, history, calls,
                   attempt, lastOutcome, ret, result, session, ui,
                   evaluation, df, summarized, mlruns>>

\* Line 70: mlflow.log_artifact("temp/revised_reasoning.txt")
LogRevisedText(s) ==
    /\ runs[s].pc = "log_revised"
    /\ files' = Write(files, ArtifactPath(s, "revised_reasoning.txt"),
                      files[RevisedTextPath])
    /\ runs' = [runs EXCEPT ![s].pc = "logged"]
    /\ UNCHANGED <<jsonErrIsRequestException, pc, caller, args, i, history, calls,
                   attempt, lastOutcome, ret, result, session, ui,
                   evaluation, df, summarized, mlruns>>

----------------------------------------------------------------------------
(* Direct calls of the two save functions, and a reader of their files *)

SaveOutputJson(summary, reasoning, suggested_name) ==
    /\ files' = save_output_json(files, summary, reasoning, suggested_name)
    /\ UNCHANGED <<jsonErrIsRequestException, pc, caller, args, i, history, calls,
                   attempt, lastOutcome, ret, result, session, ui, evaluation>>
    /\ UNCHANGED auxVars

SaveRevisedReasoning(filename_base, summary_equation, revised_reasoning) ==
    /\ files' = save_revised_reasoning(files, filename_base, summary_equation,
                                       revised_reasoning)
    /\ UNCHANGED <<jsonErrIsRequestException, pc, caller, args, i, history, calls,
                   attempt, lastOutcome, ret, result, session, ui, evaluation>>
    /\ UNCHANGED auxVars

\* with open(os.path.join(OUTPUT_FOLDER, selected_file)) as f:
\*     data = json.load(f)
\* lines 163-164 of app.py
LoadRecord(selected_file) ==
    /\ ("outputs/" \o selected_file) \in DOMAIN files
    /\ result' = json_load(files["outputs/" \o selected_file])
    /\ UNCHANGED <<jsonErrIsRequestException, pc, caller, args, i, history, calls,
                   attempt, lastOutcome, ret, session, files, ui, evaluation>>
    /\ UNCHANGED auxVars

----------------------------------------------------------------------------
(* The library operations on their own *)

Init ==
    /\ jsonErrIsRequestException \in BOOLEAN
    /\ pc = "idle"
    /\ caller = "none"
    /\ args = NoArgs
    /\ i = 0
    /\ history = <<>>
    /\ calls = <<>>
    /\ attempt = 0
    /\ lastOutcome = "none"
    /\ ret = Pending
    /\ result = PyNone
    /\ session = PyDict(<<>>)
    /\ files = <<>>
    /\ ui = "page"
    /\ evaluation = NoEvaluation
    /\ runs = NoRuns
    /\ df = SteelData
    /\ summarized = NoSummary
    /\ mlruns = NoMlRuns

Next ==
    \/ \E e \in Equations, r \in Reasonings, n \in 0 .. MaxRounds : StartDebate(e, r, n)
    \/ \E o \in Outcomes(pc) : Request(o)
    \/ ProReturn
    \/ ConReturn
    \/ JudgeReturn
    \/ \E e \in Equations, r \in Reasonings : StartCall(e, r)
    \/ SingleReturn

Spec == Init /\ [][Next]_vars

----------------------------------------------------------------------------
(* The app: insights, Save Analysis and Run Evaluation *)

AppNext ==
    \/ \E e \in Equations, o \in GenerateOutcomes : GenerateInsights(e, o)
    \/ \E n \in NameInputs \cup NestedNames : SaveAnalysis(n)
    \/ \E f \in json_files, m \in Methods : StartEvaluation(f, m)
    \/ \E o \in Outcomes(pc) : Request(o)
    \/ ProReturn
    \/ ConReturn
    \/ JudgeReturn
    \/ SingleReturn
    \/ FinishEvaluation
    \/ EvaluationRaised

AppSpec == Init /\ [][AppNext]_vars

----------------------------------------------------------------------------
(* Save Analysis and Run Evaluation over records whose names collide *)

\* The backend answers drawn here: an argument, a verdict with and without a
\* revision, a refused connection and a reply that is no JSON object
RecordOutcomes(stance) ==
    {o \in Outcomes(stance) :
        \/ o.kind = "ok" /\ o.text \in {ArgBody, JudgeFull, JudgeNoRevision}
        \/ o.kind \in {"conn_error", "bad_shape"}}

RecordNext ==
    \/ \E e \in Equations, o \in GenerateOutcomes : GenerateInsights(e, o)
    \/ \E n \in (NameInputs \ {""}) \cup RevisedLookingNames : SaveAnalysis(n)
    \/ \E f \in json_files, m \in Methods : StartEvaluation(f, m)
    \/ \E o \in RecordOutcomes(pc) : Request(o)
    \/ ProReturn
    \/ ConReturn
    \/ JudgeReturn
    \/ SingleReturn
    \/ FinishEvaluation
    \/ EvaluationRaised

RecordSpec == Init /\ [][RecordNext]_vars

----------------------------------------------------------------------------
(* The record store on its own *)

StoreNext ==
    \/ \E e \in Equations, r \in ReasoningArgs, n \in NameInputs \ {""} :
          SaveOutputJson(PyStr(e), r, n)
    \/ \E e \in Equations, r \in RevisedArgs, n \in NameInputs \ {""} :
          SaveRevisedReasoning(n, PyStr(e), r)
    \/ \E n \in NameInputs \ {""} : LoadRecord(RecordFile(n))
    \/ \E n \in NameInputs \ {""} : LoadRecord(RevisedFile(n))

StoreSpec == Init /\ [][StoreNext]_vars

----------------------------------------------------------------------------
(* Two sessions logging at once *)

LogNext ==
    \/ \E s \in Sessions, n \in StoreNames, e \in Equations, r \in ParsedResults,
          m \in {"Reflection", "Iterative Agent Debate"} :
             MethodReturned(s, RecordFile(n), m, e, r)
    \/ \E s \in Sessions : SaveRevised(s)
    \/ \E s \in Sessions : LogMetrics(s)
    \/ \E s \in Sessions : WriteResult(s)
    \/ \E s \in Sessions : LogResult(s)
    \/ \E s \in Sessions : WriteRevisedText(s)
    \/ \E s \in Sessions : LogRevisedText(s)

LogSpec == Init /\ [][LogNext]_vars

----------------------------------------------------------------------------
(* One session logging results that carry scores *)

MetricNext ==
    \/ \E e \in Equations, r \in ScoredResults, m \in ScoredMethods :
          MethodReturned("s1", RecordFile("a"), m, e, r)
    \/ SaveRevised("s1")
    \/ LogMetrics("s1")
    \/ WriteResult("s1")
    \/ LogResult("s1")
    \/ WriteRevisedText("s1")
    \/ LogRevisedText("s1")

MetricSpec == Init /\ [][MetricNext]_vars

----------------------------------------------------------------------------
(* The summarizer on its own *)

SummaryInit ==
    /\ jsonErrIsRequestException \in BOOLEAN
    /\ pc = "idle"
    /\ caller = "none"
    /\ args = NoArgs
    /\ i = 0
    /\ history = <<>>
    /\ calls = <<>>
    /\ attempt = 0
    /\ lastOutcome = "none"
    /\ ret = Pending
    /\ result = PyNone
    /\ session = PyDict(<<>>)
    /\ files = <<>>
    /\ ui = "page"
    /\ evaluation = NoEvaluation
    /\ runs = NoRuns
    /\ df \in Tables
    /\ summarized = NoSummary
    /\ mlruns = NoMlRuns

SummaryNext ==
    \/ \E d \in Days : SummarizeDay(d)
    \/ \E a \in Days, b \in Days : SummarizePeriod(a, b)

SummarySpec == SummaryInit /\ [][SummaryNext]_vars

----------------------------------------------------------------------------
(* Properties *)

Sentinels == {Sentinel(e) : e \in ErrMessages}

\* The texts above that json.loads rejects
UnparseableTexts == {JudgeProse, NoResponseField, Sentinel(HttpQuotedMsg)}

DebateRun == calls # <<>> /\ calls[1].stance \in {"pro", "con", "judge"}

JudgeCalls == {k \in 1 .. Len(calls) : calls[k].stance = "judge"}

\* (round, role) of the k-th turn of a debate: (1,Pro), (1,Con), (2,Pro), ...
ExpectedTag(k) == <<(k + 1) \div 2, IF k % 2 = 1 THEN "Pro" ELSE "Con">>

TaggedInOrder(hist, rounds) ==
    /\ Len(hist) = 2 * rounds
    /\ \A k \in 1 .. Len(hist) : <<hist[k].round, hist[k].role>> = ExpectedTag(k)

IsPrefix(s, t) == Len(s) <= Len(t) /\ SubSeq(t, 1, Len(s)) = s
IsProperPrefix(s, t) == Len(s) < Len(t) /\ SubSeq(t, 1, Len(s)) = s

\* C1: in a run of run_iterative_debate with rounds = R the history in the
\* judge prompt holds exactly 2R turns tagged (1,Pro), (1,Con), ..., (R,Pro),
\* (R,Con); the judge call is the last call of the run, made after the 2R turn
\* calls, never more than once, and exactly once in a run that returned.
C1_TranscriptBeforeJudging ==
    DebateRun =>
        /\ Cardinality(JudgeCalls) <= 1
        /\ \A k \in JudgeCalls :
              /\ k = Len(calls)
              /\ k = 2 * args.rounds + 1
              /\ TaggedInOrder(calls[k].prompt.history, args.rounds)
        /\ pc = "judge" => TaggedInOrder(history, args.rounds)
        /\ pc = "done" => Cardinality(JudgeCalls) = 1

C1_Witness ==
    /\ DebateRun
    /\ pc = "done"
    /\ args.rounds = 2
    /\ Len(calls[Len(calls)].prompt.history) = 4

\* C2: when the judge's text is not parseable JSON, run_iterative_debate
\* returns (it does not raise) a dict with an error key and a raw_output key
\* whose value is the judge's text.
C2_FallbackVerdict ==
    [][(pc = "judge" /\ ret # Pending /\ ret.v \in UnparseableTexts) =>
          /\ pc' = "done"
          /\ result'.t = "dict"
          /\ {"error", "raw_output"} \subseteq DOMAIN result'.v
          /\ result'.v["raw_output"] = PyStr(ret.v)]_vars

C2_Witness ==
    /\ DebateRun
    /\ pc = "done"
    /\ ret.v = JudgeProse
    /\ result.t = "dict"
    /\ "raw_output" \in DOMAIN result.v

\* C3: a transport failure on an attempt before the third is followed by
\* another attempt, so the call returns a failure only after three failed
\* attempts.
C3_FailsOnlyAfterThreeFailures ==
    (pc \in CallStates /\ lastOutcome \in TransportFailures /\ attempt < 3)
        => ret = Pending

\* C4: send_to_ollama never raises to its caller, whatever the attempts end in.
C4_NeverRaises == pc # "raised"

\* C5: a call sends at most 3 requests, and a request after the first is sent
\* only when the attempt before it ended in a transport-level failure.
C5_RetriesOnlyTransportFailures ==
    [][(pc \in CallStates /\ attempt' = attempt + 1) =>
          /\ attempt' <= 3
          /\ attempt >= 1 => lastOutcome \in TransportFailures]_vars

\* C6: a transport failure during a Pro or Con turn yields the sentinel string
\* as the call's value without ending the run, and the sentinel is appended to
\* the history under the turn's (round, role) tag while the run moves on to
\* the turn or judge call that normally follows.
C6_TransportFailureDoesNotAbort ==
    [][/\ (pc \in {"pro", "con"} /\ attempt' = attempt + 1
              /\ lastOutcome' \in TransportFailures) =>
          (pc' = pc /\ ret'.t = "str" /\ ret'.v \in Sentinels)
       /\ (pc \in {"pro", "con"} /\ ret # Pending /\ lastOutcome \in TransportFailures) =>
          /\ history' = Append(history,
                 Turn(i + 1, IF pc = "pro" THEN "Pro" ELSE "Con", ret.v))
          /\ ret.v \in Sentinels
          /\ pc' = (IF pc = "pro" THEN "con"
                    ELSE IF i + 1 < args.rounds THEN "pro" ELSE "judge")
          /\ Len(calls') = Len(calls) + 1
          /\ calls'[Len(calls')].stance = pc']_vars

C6_Witness ==
    /\ DebateRun
    /\ pc = "done"
    /\ Len(history) = 4
    /\ history[1].text \in Sentinels
    /\ history[4].text = ArgBody

\* C7: every prompt of a run embeds the whole history as it stands when the
\* prompt is built, nothing is ever removed from the history, each prompt's
\* history strictly extends that of every earlier prompt of the run, and the
\* Con prompt of round r ends with the Pro turn of round r.
C7_HistoryGrowsInEveryPrompt ==
    DebateRun =>
        /\ \A k \in 1 .. Len(calls) : IsPrefix(calls[k].prompt.history, history)
        /\ pc \in {"pro", "con", "judge"} /\ ret = Pending
              => calls[Len(calls)].prompt.history = history
        /\ \A k, m \in 1 .. Len(calls) :
              k < m => IsProperPrefix(calls[k].prompt.history, calls[m].prompt.history)
        /\ \A k \in 1 .. Len(calls) :
              calls[k].stance = "con" =>
                 LET h == calls[k].prompt.history
                 IN  /\ h # <<>>
                     /\ h[Len(h)].round = calls[k].round
                     /\ h[Len(h)].role = "Pro"
                     /\ k > 1
                     /\ Len(h) = Len(calls[k - 1].prompt.history) + 1

C7_Witness ==
    /\ DebateRun
    /\ pc = "done"
    /\ Len(calls) = 5
    /\ Len(calls[4].prompt.history) = 3
    /\ calls[4].stance = "con"

\* C8: a started run of run_iterative_debate ends only by returning a verdict,
\* after 2 * rounds + 1 client calls.
C8_RunsToCompletion ==
    (DebateRun /\ pc \in {"done", "raised"}) =>
        (pc = "done" /\ Len(calls) = 2 * args.rounds + 1)

\* C9: every Pro and Con call of a run is made at temperature 0.5 and the
\* judge call at the default 0.1; no call of the run uses another temperature.
C9_Temperatures ==
    DebateRun =>
        \A k \in 1 .. Len(calls) :
            /\ calls[k].stance \in {"pro", "con"} => calls[k].temperature = 5
            /\ calls[k].stance = "judge" => calls[k].temperature = 1
            /\ calls[k].stance \in {"pro", "con", "judge"}

C9_Witness ==
    /\ DebateRun
    /\ pc = "done"
    /\ Len(calls) = 5
    /\ calls[5].temperature = 1
    /\ calls[1].temperature = 5

\* C10: while the app evaluates a record written by Save Analysis, the
\* equation embedded in every evaluation prompt is the equation string held
\* in that record.
C10_PromptEmbedsSavedEquation ==
    (caller = "app" /\ ui = "evaluating") =>
        LET data == json_load(files["outputs/" \o evaluation.file])
        IN  \A k \in 1 .. Len(calls) :
                /\ calls[k].prompt.summary_equation \in Equations
                /\ \E key \in DOMAIN data.v :
                      data.v[key] = PyStr(calls[k].prompt.summary_equation)

\* The app is about to run lines 181-191 on the verdict of a debate
DebateReturnedToApp ==
    /\ caller = "app"
    /\ pc = "done"
    /\ ui = "evaluating"
    /\ evaluation.method = "Iterative Agent Debate"

\* The revised interpretation the verdict carries, "" when it carries none
RevisedOf(verdict) ==
    IF verdict.t = "dict" THEN Get(verdict, "revised_pro", PyStr("")) ELSE PyStr("")

\* The equation a record file holds, under the key it was saved with
EquationOf(text) ==
    LET data == json_load(text)
    IN  Get(data, "summary_equation", Get(data, "summary", PyNone))

\* C11: when a debate evaluation of record <id> ends, outputs/<id>_revised.json
\* is written, holding that record's equation, if the verdict carries a
\* non-empty revised_pro; otherwise no file of the store is written.
C11_RevisedRecordIffRevision ==
    [][DebateReturnedToApp =>
         LET path == "outputs/" \o RevisedFile(WithoutJson(evaluation.file))
         IN  IF Truthy(RevisedOf(result))
             THEN /\ path \in DOMAIN files'
                  /\ \A f \in DOMAIN files : files'[f] # files[f] => f = path
                  /\ EquationOf(files'[path]) =
                        EquationOf(files["outputs/" \o evaluation.file])
             ELSE files' = files]_vars

\* The value a record file holds under a key
FieldOf(text, key) == json_load(text).v[key]

\* The revised_reasoning field the record format prescribes for a revised
\* interpretation: the parsed object of a text that is a JSON object, the
\* raw wrapper of anything else
PrescribedRevision(revised_reasoning) ==
    LET parsed == IF revised_reasoning.t = "str"
                  THEN json_loads(revised_reasoning.v)
                  ELSE [ok |-> FALSE, value |-> PyNone]
    IN  IF parsed.ok /\ parsed.value.t = "dict" THEN parsed.value
        ELSE PyDict([raw_revised_output |-> revised_reasoning])

\* C12: the revised_reasoning field of every file save_revised_reasoning
\* wrote is the parsed JSON object of a revised interpretation that is the
\* text of a JSON object, or the wrapper {"raw_revised_output": <text>} of one
\* that is not.
C12_RevisedFieldObjectOrWrapper ==
    \A n \in NameInputs \ {""} :
        LET path == "outputs/" \o RevisedFile(n)
        IN  path \in DOMAIN files =>
                \E r \in RevisedArgs :
                    FieldOf(files[path], "revised_reasoning") = PrescribedRevision(r)

\* The reasoning field the record format prescribes for a backend text: the
\* parsed value of valid JSON, the raw wrapper of anything else
PrescribedReasoning(text) ==
    LET parsed == json_loads(text.v)
    IN  IF parsed.ok THEN parsed.value ELSE PyDict([raw_output |-> text])

\* C13: every record file a Save Analysis step writes holds, under reasoning,
\* the parsed JSON object of the session's backend text when that text is
\* valid JSON and the wrapper {"raw_output": <text>} when it is not.
C13_ReasoningParsedOrWrapped ==
    [][(AppIdle /\ ui' = "saved") =>
         \A path \in DOMAIN files' :
             (path \notin DOMAIN files \/ files'[path] # files[path]) =>
                 FieldOf(files'[path], "reasoning") =
                     PrescribedReasoning(session.v["latest_reasoning"])]_vars

\* C14: a backend that is unreachable or answers outside 2xx never makes the
\* page end in an exception: Generate LLM Insights leaves a value the page
\* can display, and a client call of an evaluation that met such a failure
\* has returned a string.
C14_AlwaysDisplayable ==
    /\ ui \notin {"ConnectionError", "TypeError"}
    /\ (caller = "app" /\ lastOutcome \in TransportFailures) =>
           (pc # "raised" /\ ret.t = "str")

\* C16: a Save Analysis on a name no file can be written under ends in the
\* warning, with no file written and no client call started, and never in an
\* exception; Run Evaluation starts on files of outputs/ only.
C16_InvalidInputEndsInWarning ==
    [][/\ ui' \in {"warning", "FileNotFoundError"} =>
             (ui' = "warning" /\ files' = files /\ calls' = calls /\ pc' = pc)
       /\ (ui # "evaluating" /\ ui' = "evaluating") =>
             ("outputs/" \o evaluation'.file) \in DOMAIN files]_vars

\* No other session evaluates the record that session s evaluates
OnRecordOfItsOwn(s) ==
    \A t \in Sessions \ {s} : runs[t].selected_file # runs[s].selected_file

\* The revised record of session s holds the revision of its own verdict
OwnRevisedRecord(s) ==
    LET revised == Get(runs[s].result_dict, "revised_pro", PyStr(""))
        path == "outputs/" \o RevisedFile(WithoutJson(runs[s].selected_file))
    IN  (runs[s].pc \notin {"idle", "revise"} /\ Truthy(revised)) =>
            /\ path \in DOMAIN files
            /\ files[path] = Dump(PyDict([summary_equation |-> PyStr(runs[s].equation),
                                          revised_reasoning |-> reasoning_data(revised)]),
                                  4, 0)

\* The artifacts logged to the run of session s hold its own verdict
OwnArtifacts(s) ==
    /\ runs[s].pc \in {"write_revised", "log_revised", "logged"} =>
          files[ArtifactPath(s, "evaluation_output/result.json")] =
              Dump(runs[s].result_dict, 4, 0)
    /\ (runs[s].pc = "logged" /\ "revised_pro" \in DOMAIN runs[s].result_dict.v) =>
          files[ArtifactPath(s, "revised_reasoning.txt")] =
              runs[s].result_dict.v["revised_pro"].v

\* C15: of two sessions that evaluate different records at the same time,
\* each finds its own verdict, and nothing of the other's, in the revised
\* record it wrote and in the artifacts it logged, however their steps
\* interleave.
C15_RunsDoNotInterfere ==
    \A s \in Sessions :
        OnRecordOfItsOwn(s) => (OwnRevisedRecord(s) /\ OwnArtifacts(s))

\* The rows of the table in the window of the last summarizer call
WindowRows ==
    IF Len(summarized.window) = 1 THEN DayRows(df, summarized.window[1])
    ELSE IF Len(summarized.window) = 2
    THEN PeriodRows(df, summarized.window[1], summarized.window[2])
    ELSE {}

NoDataHeaders == {"No data found for", "No data found for the period from"}

\* C17: for a window that holds fewer than 2 rows, summarize_day and
\* summarize_period return the no-data sentinel and compute no statistics.
C17_FewRecordsGiveSentinel ==
    (summarized.header # "" /\ Cardinality(WindowRows) < 2) =>
        /\ summarized.header \in NoDataHeaders
        /\ summarized.stats = <<>>
        /\ DOMAIN summarized.distribution = {}

\* The terms of what the summarizer returned: its lines of statistics and of
\* load types
Terms == Len(summarized.stats) + Cardinality(DOMAIN summarized.distribution)

\* The category values the window holds in the three categorical columns
ObservedCategories ==
    Cardinality({r.Load_Type : r \in WindowRows})
    + Cardinality({r.WeekStatus : r \in WindowRows})
    + Cardinality({r.Day_of_week : r \in WindowRows})

\* C19: for a window that holds at least 2 rows, what the summarizer returns
\* has one term for the intercept, one for each numeric column and one for
\* each category value that Load_Type, WeekStatus and Day_of_week take in the
\* window, and none for a value they do not take.
C19_EquationTermCount ==
    (summarized.header # "" /\ Cardinality(WindowRows) >= 2) =>
        Terms = 1 + Len(numeric_columns) + ObservedCategories

SingleCallMethods == Methods \ {"Iterative Agent Debate"}

\* The prompt template of each single-call method, lines 169-175 of app.py
TemplateOf(eval_method) ==
    CASE eval_method = "Reflection" -> "reflection"
      [] eval_method = "Chain of Thought" -> "chain_of_thought"
      [] eval_method = "Single-Round Debate" -> "single_debate"

\* C18: an evaluation under Reflection, Chain of Thought or Single-Round
\* Debate makes exactly one client call, with the prompt of its method and
\* outside run_iterative_debate, and writes no file; an evaluation under
\* Iterative Agent Debate is a run of run_iterative_debate.
C18_SingleMethodsMakeOneCall ==
    /\ [](caller = "app" =>
            IF evaluation.method \in SingleCallMethods
            THEN /\ Len(calls) = 1
                 /\ calls[1].stance = TemplateOf(evaluation.method)
                 /\ pc \in {"single", "done", "raised"}
            ELSE DebateRun)
    /\ [][(caller = "app" /\ evaluation.method \in SingleCallMethods) =>
              files' = files]_vars

C18_Witness ==
    /\ caller = "app"
    /\ pc = "done"
    /\ evaluation.method = "Single-Round Debate"
    /\ Len(calls) = 1
    /\ result.t = "str"
    /\ "outputs/a.json" \in DOMAIN files
    /\ "outputs/a_revised.json" \notin DOMAIN files

\* C20: whatever payload save_output_json is given, an interpretation object
\* among them, the file it writes reads back under reasoning as that payload.
C20_SaveThenLoadRoundTrip ==
    [][\A e \in Equations, r \in ReasoningArgs, n \in NameInputs \ {""} :
          files' = save_output_json(files, PyStr(e), r, n) =>
              FieldOf(files'["outputs/" \o RecordFile(n)], "reasoning") = r]_vars

\* A record saved with an interpretation object has been loaded
C20_Witness ==
    /\ "outputs/a.json" \in DOMAIN files
    /\ files["outputs/a.json"] =
          Dump(PyDict([summary |-> PyStr("Usage_kWh = 3.0000 - 0.5000 * NSM"),
                       reasoning |-> PyDict([maintenance_needed |-> PyBool(TRUE)])]),
               4, 0)
    /\ result.t = "dict"
    /\ "reasoning" \in DOMAIN result.v
    /\ result.v["reasoning"] = PyDict([maintenance_needed |-> PyBool(TRUE)])

\* C21: the value run_iterative_debate returns to the app is a dict whatever
\* the judge answered, and the result.get("revised_pro", "") of the handler
\* that follows does not raise.
C21_VerdictIsMapping ==
    [][DebateReturnedToApp => (result.t = "dict" /\ ui' # "AttributeError")]_vars

\* A file that Save Analysis wrote: save_output_json keeps the equation under
\* "summary", save_revised_reasoning under "summary_equation"
WrittenBySaveAnalysis(fs, path) ==
    /\ path \in DOMAIN fs
    /\ "summary" \in DOMAIN json_load(fs[path]).v

\* C22: no step of an evaluation changes a file that Save Analysis wrote: an
\* evaluation of <id>.json writes at most outputs/<id>_revised.json, a file
\* named *_revised.json is never offered for evaluation, and every record
\* that Save Analysis wrote is the same after the evaluation as before it.
C22_EvaluationLeavesSavedRecords ==
    [][ui = "evaluating" =>
         /\ ~EndsWithRevised(evaluation.file)
         /\ \A path \in DOMAIN files' :
               (path \notin DOMAIN files \/ files'[path] # files[path])
                   => path = "outputs/" \o RevisedFile(WithoutJson(evaluation.file))
         /\ \A path \in DOMAIN files :
               WrittenBySaveAnalysis(files, path)
                   => path \in DOMAIN files' /\ files'[path] = files[path]]_vars

\* What send_to_ollama returns after a refused connection or a non-2xx reply
TransportSentinels == {Sentinel(e) : e \in {ConnRefusedMsg, HttpMsg, HttpQuotedMsg}}

\* The judge call of the debate that returned ended in a transport failure:
\* ret still holds what the judge call returned
JudgeCallFailed ==
    /\ DebateReturnedToApp
    /\ ret.t = "str"
    /\ ret.v \in TransportSentinels

\* C23: when the judge call of a debate ends in a transport failure, the
\* verdict the debate returns is a dict with an "error" key, whether the
\* sentinel string parsed as JSON or not, and the handler that follows
\* writes no file.
C23_JudgeFailureGivesErrorAndNoRecord ==
    [][JudgeCallFailed =>
         /\ result.t = "dict"
         /\ "error" \in DOMAIN result.v
         /\ files' = files]_vars

\* A judge call that failed with a sentinel that is no JSON: the fallback
\* verdict of the except branch
C23_Witness ==
    /\ JudgeCallFailed
    /\ "raw_output" \in DOMAIN result.v
    /\ result.v["raw_output"] = PyStr(Sentinel(HttpQuotedMsg))

\* The object in which the prompt of the method asks for the scores
TemplateScores(eval_method, result_dict) ==
    IF ScoresUnder(eval_method) = "" THEN result_dict
    ELSE Get(result_dict, ScoresUnder(eval_method), PyNone)

\* The result carries a number under each of the three score keys of its
\* method's prompt
CarriesNumericScores(eval_method, result_dict) ==
    LET scores == TemplateScores(eval_method, result_dict)
    IN  /\ scores.t = "dict"
        /\ \A m \in DOMAIN ScoreKeys(eval_method) :
              /\ ScoreKeys(eval_method)[m] \in DOMAIN scores.v
              /\ scores.v[ScoreKeys(eval_method)[m]].t = "int"

\* The session is past the metric loop of log_streamlit_evaluation
MetricsLogged(s) ==
    runs[s].pc \in {"write_result", "log_result", "write_revised", "log_revised",
                    "logged"}

\* C24: once log_streamlit_evaluation has logged a result that carries
\* numeric scores under the key names of its method's prompt, the run has
\* each of the metrics correctness, clarity and usefulness, with the score as
\* its one value, a score of 0 included.
C24_AllThreeScoresLogged ==
    \A s \in Sessions :
        (MetricsLogged(s) /\ CarriesNumericScores(runs[s].eval_method, runs[s].result_dict)) =>
            LET scores == TemplateScores(runs[s].eval_method, runs[s].result_dict)
            IN  \A m \in DOMAIN ScoreKeys(runs[s].eval_method) :
                   /\ m \in DOMAIN mlruns[s].metrics
                   /\ mlruns[s].metrics[m] =
                         <<PyFloat(scores.v[ScoreKeys(runs[s].eval_method)[m]].v)>>

====
